---- MODULE Spec2Model ----
(***************************************************************************)
(* Model of package av (src/av.go): the Alpha Vantage client.              *)
(*                                                                         *)
(* A Go string is a sequence of one-character strings, so that escaping,   *)
(* sorting and parsing of a query string are computed character by         *)
(* character.  A url.Values is a function from keys to sequences of        *)
(* values.  A *url.URL is an address into the variable heap.               *)
(***************************************************************************)
EXTENDS Integers, Sequences, FiniteSets, TLC

Nil == "nil"

(***************************************************************************)
(* Bytes of the characters that occur in the model's strings.              *)
(***************************************************************************)
Upper == << "A", "B", "C", "D", "E", "F", "G", "H", "I", "J", "K", "L", "M",
            "N", "O", "P", "Q", "R", "S", "T", "U", "V", "W", "X", "Y", "Z" >>

Lower == << "a", "b", "c", "d", "e", "f", "g", "h", "i", "j", "k", "l", "m",
            "n", "o", "p", "q", "r", "s", "t", "u", "v", "w", "x", "y", "z" >>

Digits == << "0", "1", "2", "3", "4", "5", "6", "7", "8", "9" >>

HexDigits == << "0", "1", "2", "3", "4", "5", "6", "7", "8", "9",
                "A", "B", "C", "D", "E", "F" >>

Range(s) == { s[i] : i \in DOMAIN s }

IndexOf(s, c) == CHOOSE i \in DOMAIN s : s[i] = c

Punct == { " ", "%", "&", "+", "-", ".", "=", "_", "~" }

Letters == Range(Upper) \cup Range(Lower)

DigitSet == Range(Digits)

HexDigitSet == Range(HexDigits)

Chars == Letters \cup DigitSet \cup Punct

ByteOf(c) ==
    CASE c \in Range(Upper)  -> 64 + IndexOf(Upper, c)
      [] c \in Range(Lower)  -> 96 + IndexOf(Lower, c)
      [] c \in Range(Digits) -> 47 + IndexOf(Digits, c)
      [] c = " " -> 32
      [] c = "%" -> 37
      [] c = "&" -> 38
      [] c = "+" -> 43
      [] c = "-" -> 45
      [] c = "." -> 46
      [] c = "=" -> 61
      [] c = "_" -> 95
      [] c = "~" -> 126

Bytes == [ c \in Chars |-> ByteOf(c) ]

Byte(c) == Bytes[c]

CharOf(b) == CHOOSE c \in Chars : Byte(c) = b

IsByte(b) == \E c \in Chars : Byte(c) = b

\* Go compares strings byte by byte (sort.Strings in Values.Encode).
RECURSIVE StrLess(_, _)
StrLess(a, b) ==
    IF b = <<>> THEN FALSE
    ELSE IF a = <<>> THEN TRUE
    ELSE IF Byte(Head(a)) # Byte(Head(b)) THEN Byte(Head(a)) < Byte(Head(b))
    ELSE StrLess(Tail(a), Tail(b))

RECURSIVE SortStrings(_)
SortStrings(S) ==
    IF S = {} THEN <<>>
    ELSE LET m == CHOOSE x \in S : \A y \in S \ {x} : StrLess(x, y)
         IN  <<m>> \o SortStrings(S \ {m})

(***************************************************************************)
(* net/url: QueryEscape, QueryUnescape, Values, ParseQuery, Encode.        *)
(***************************************************************************)
\* url.shouldEscape in mode encodeQueryComponent: letters, digits and
\* - _ . ~ are kept, every other byte is escaped.
Unreserved == Letters \cup DigitSet \cup { "-", "_", ".", "~" }

shouldEscape(c) == c \notin Unreserved

\* url.escape, one byte: a space becomes +, an escaped byte %XX.
escapeByte(c) ==
    IF c = " " THEN << "+" >>
    ELSE IF shouldEscape(c)
         THEN << "%", HexDigits[(Byte(c) \div 16) + 1],
                      HexDigits[(Byte(c) % 16) + 1] >>
         ELSE << c >>

Escaped == [ c \in Chars |-> escapeByte(c) ]

RECURSIVE QueryEscape(_)
QueryEscape(s) ==
    IF s = <<>> THEN <<>> ELSE Escaped[Head(s)] \o QueryEscape(Tail(s))

unhex(c) == IndexOf(HexDigits, c) - 1

\* QueryUnescape fails on a % that two hex digits do not follow; the
\* result is then Nil.
RECURSIVE QueryUnescape(_)
QueryUnescape(s) ==
    IF s = <<>> THEN <<>>
    ELSE IF Head(s) = "%"
         THEN IF Len(s) >= 3 /\ s[2] \in HexDigitSet
                             /\ s[3] \in HexDigitSet
                             /\ IsByte(16 * unhex(s[2]) + unhex(s[3]))
              THEN LET r == QueryUnescape(SubSeq(s, 4, Len(s)))
                   IN  IF r = Nil THEN Nil
                       ELSE << CharOf(16 * unhex(s[2]) + unhex(s[3])) >> \o r
              ELSE Nil
         ELSE LET r == QueryUnescape(Tail(s))
              IN  IF r = Nil THEN Nil
                  ELSE << (IF Head(s) = "+" THEN " " ELSE Head(s)) >> \o r

EmptyValues == << >>

\* Values.Set: the key's values are replaced by the one value.
ValuesSet(v, key, value) ==
    [ k \in DOMAIN v \cup {key} |-> IF k = key THEN << value >> ELSE v[k] ]

\* Values.Add, used by ParseQuery.
ValuesAdd(v, key, value) ==
    [ k \in DOMAIN v \cup {key} |->
        IF k = key
        THEN (IF key \in DOMAIN v THEN v[key] ELSE <<>>) \o << value >>
        ELSE v[k] ]

\* Values.Get: the first value of the key, or the empty string.
ValuesGet(v, key) ==
    IF key \in DOMAIN v /\ v[key] # <<>> THEN v[key][1] ELSE <<>>

FirstIndex(s, c) ==
    IF c \in Range(s)
    THEN CHOOSE i \in DOMAIN s : s[i] = c /\ \A j \in 1..(i - 1) : s[j] # c
    ELSE 0

\* One key=value pair of a query: url.parseQuery's loop body.
ParsePair(v, pair) ==
    IF pair = <<>> THEN v
    ELSE LET eq == FirstIndex(pair, "=")
             k  == IF eq = 0 THEN pair ELSE SubSeq(pair, 1, eq - 1)
             x  == IF eq = 0 THEN <<>> ELSE SubSeq(pair, eq + 1, Len(pair))
             uk == QueryUnescape(k)
             ux == QueryUnescape(x)
         IN  IF uk = Nil \/ ux = Nil THEN v ELSE ValuesAdd(v, uk, ux)

\* url.ParseQuery: the query is cut at every &.
RECURSIVE ParseQueryInto(_, _)
ParseQueryInto(v, query) ==
    IF query = <<>> THEN v
    ELSE LET amp  == FirstIndex(query, "&")
             pair == IF amp = 0 THEN query ELSE SubSeq(query, 1, amp - 1)
             rest == IF amp = 0 THEN <<>>
                     ELSE SubSeq(query, amp + 1, Len(query))
         IN  ParseQueryInto(ParsePair(v, pair), rest)

ParseQuery(query) == ParseQueryInto(EmptyValues, query)

RECURSIVE EncodeValues(_, _)
EncodeValues(key, vs) ==
    IF vs = <<>> THEN <<>>
    ELSE << QueryEscape(key) \o << "=" >> \o QueryEscape(Head(vs)) >>
         \o EncodeValues(key, Tail(vs))

RECURSIVE JoinAmp(_)
JoinAmp(pairs) ==
    IF pairs = <<>> THEN <<>>
    ELSE IF Len(pairs) = 1 THEN pairs[1]
    ELSE pairs[1] \o << "&" >> \o JoinAmp(Tail(pairs))

RECURSIVE EncodeKeys(_, _)
EncodeKeys(v, keys) ==
    IF keys = <<>> THEN <<>>
    ELSE EncodeValues(Head(keys), v[Head(keys)]) \o EncodeKeys(v, Tail(keys))

\* Values.Encode: "key=value" pairs joined by &, sorted by key.
Encode(v) == JoinAmp(EncodeKeys(v, SortStrings(DOMAIN v)))

(***************************************************************************)
(* Constants of src/av.go.                                                 *)
(***************************************************************************)
HostDefault == << "w", "w", "w", ".", "a", "l", "p", "h", "a", "v", "a", "n",
                  "t", "a", "g", "e", ".", "c", "o" >>

schemeHttps == << "h", "t", "t", "p", "s" >>

queryApiKey == << "a", "p", "i", "k", "e", "y" >>

queryDataType == << "d", "a", "t", "a", "t", "y", "p", "e" >>

queryOutputSize == << "o", "u", "t", "p", "u", "t", "s", "i", "z", "e" >>

querySymbol == << "s", "y", "m", "b", "o", "l" >>

queryMarket == << "m", "a", "r", "k", "e", "t" >>

queryEndpoint == << "f", "u", "n", "c", "t", "i", "o", "n" >>

queryInterval == << "i", "n", "t", "e", "r", "v", "a", "l" >>

queryKeywords == << "k", "e", "y", "w", "o", "r", "d", "s" >>

valueCompact == << "c", "o", "m", "p", "a", "c", "t" >>

valueFull == << "f", "u", "l", "l" >>

valueJson == << "j", "s", "o", "n" >>

valueDigitcalCurrencyEndpoint ==
    << "D", "I", "G", "I", "T", "A", "L", "_", "C", "U", "R", "R", "E", "N",
       "C", "Y", "_", "I", "N", "T", "R", "A", "D", "A", "Y" >>

valueSymbolSearchEndpoint ==
    << "S", "Y", "M", "B", "O", "L", "_", "S", "E", "A", "R", "C", "H" >>

pathQuery == << "q", "u", "e", "r", "y" >>

(***************************************************************************)
(* Names av.go uses and another file of the package declares.              *)
(***************************************************************************)
valueCsv == << "c", "s", "v" >>

GlobalQuote == << "G", "L", "O", "B", "A", "L", "_", "Q", "U", "O", "T", "E" >>

timeSeriesIntraday == "timeSeriesIntraday"

TimeSeriesDaily == "TimeSeriesDaily"

TimeSeriesWeekly == "TimeSeriesWeekly"

TimeIntervalOneMinute == "TimeIntervalOneMinute"

\* TimeSeries.keyName and TimeInterval.keyName: the stable string key of
\* an enumeration value.
keyName(e) ==
    CASE e = timeSeriesIntraday ->
           << "T", "I", "M", "E", "_", "S", "E", "R", "I", "E", "S", "_",
              "I", "N", "T", "R", "A", "D", "A", "Y" >>
      [] e = TimeSeriesDaily ->
           << "T", "I", "M", "E", "_", "S", "E", "R", "I", "E", "S", "_",
              "D", "A", "I", "L", "Y" >>
      [] e = TimeSeriesWeekly ->
           << "T", "I", "M", "E", "_", "S", "E", "R", "I", "E", "S", "_",
              "W", "E", "E", "K", "L", "Y" >>
      [] e = TimeIntervalOneMinute -> << "1", "m", "i", "n" >>

(***************************************************************************)
(* type OutputSize uint8                                                   *)
(***************************************************************************)
MaxOutputSize == 255

OutputSizes == 0..MaxOutputSize

Compact == 0

Full == 1

\* String with Full as the value of every size but Compact.
OutputSizeString_lastCase(outputSize) ==
    CASE outputSize = Compact -> valueCompact
      [] OTHER                -> valueFull

\* OutputSize.String
OutputSizeString(outputSize) ==
    CASE outputSize = Compact -> valueCompact
      [] outputSize = Full    -> valueFull
      [] OTHER                -> valueCompact

\* getOutputSize reading the last optional size.
getOutputSize_last(optionalOutputSize) ==
    IF Len(optionalOutputSize) > 0
    THEN OutputSizeString(optionalOutputSize[Len(optionalOutputSize)])
    ELSE OutputSizeString(Compact)

getOutputSize(optionalOutputSize) ==
    IF Len(optionalOutputSize) > 0
    THEN OutputSizeString(optionalOutputSize[1])
    ELSE OutputSizeString(Compact)

(***************************************************************************)
(* Client.buildRequestPath.  params is the map[string]string, order the    *)
(* order in which the range statement visits its keys.                     *)
(***************************************************************************)
\* A zero url.URL with Path and RawQuery set.
URL(path, rawQuery) ==
    [ Scheme |-> <<>>, Host |-> <<>>, Path |-> path, RawQuery |-> rawQuery ]

\* url.URL.Query
URLQuery(u) == ParseQuery(u.RawQuery)

RECURSIVE SetAll(_, _, _)
SetAll(query, params, order) ==
    IF order = <<>> THEN query
    ELSE SetAll(ValuesSet(query, Head(order), params[Head(order)]),
                params, Tail(order))

\* The three base parameters.
SetBase(query, apiKey) ==
    ValuesSet(ValuesSet(ValuesSet(query, queryApiKey, apiKey),
                        queryDataType, valueCsv),
              queryOutputSize, valueCompact)

RECURSIVE Dedup(_)
Dedup(s) ==
    IF s = <<>> THEN <<>>
    ELSE << Head(s) >> \o Dedup(SelectSeq(Tail(s), LAMBDA k : k # Head(s)))

\* buildRequestPath setting the base parameters after those of the map.
buildRequestPath_baseLast(apiKey, params, order) ==
    URL(pathQuery,
        Encode(SetBase(SetAll(URLQuery(URL(pathQuery, <<>>)), params, order),
                       apiKey)))

\* buildRequestPath writing the keys in the order they were visited in.
buildRequestPath_unsorted(apiKey, params, order) ==
    LET query == SetAll(SetBase(URLQuery(URL(pathQuery, <<>>)), apiKey),
                        params, order)
    IN  URL(pathQuery,
            JoinAmp(EncodeKeys(query,
                Dedup(order \o << queryApiKey, queryDataType,
                                  queryOutputSize >>))))

buildRequestPath(apiKey, params, order) ==
    LET endpoint == URL(pathQuery, <<>>)
        query    == SetAll(SetBase(URLQuery(endpoint), apiKey), params, order)
    IN  [ endpoint EXCEPT !.RawQuery = Encode(query) ]

\* Every order in which a range statement can visit the keys of a map.
RangeOrders(params) ==
    { o \in [ 1..Cardinality(DOMAIN params) -> DOMAIN params ] :
        \A i, j \in DOMAIN o : i # j => o[i] # o[j] }

\* url.URL.String for a URL without user, opaque part or fragment.
URLString(u) ==
    (IF u.Scheme # <<>> THEN u.Scheme \o << ":" >> ELSE <<>>)
    \o (IF u.Scheme # <<>> \/ u.Host # <<>>
        THEN (IF u.Host # <<>> \/ u.Path # <<>> THEN << "/", "/" >> ELSE <<>>)
             \o u.Host
        ELSE <<>>)
    \o (IF u.Path # <<>> /\ u.Path[1] # "/" /\ u.Host # <<>>
        THEN << "/" >> ELSE <<>>)
    \o u.Path
    \o (IF u.RawQuery # <<>> THEN << "?" >> \o u.RawQuery ELSE <<>>)

(***************************************************************************)
(* The parameter maps the five operations of Client build.                 *)
(***************************************************************************)
Map2(k1, v1, k2, v2) == [ k \in {k1, k2} |-> IF k = k1 THEN v1 ELSE v2 ]

Map3(k1, v1, k2, v2, k3, v3) ==
    [ k \in {k1, k2, k3} |-> IF k = k1 THEN v1 ELSE IF k = k2 THEN v2 ELSE v3 ]

StockTimeSeriesIntradayParams(timeInterval, symbol) ==
    Map3(queryEndpoint, keyName(timeSeriesIntraday),
         queryInterval, keyName(timeInterval),
         querySymbol, symbol)

StockTimeSeriesParams(timeSeries, symbol, optionalOutputSize) ==
    Map3(queryEndpoint, keyName(timeSeries),
         querySymbol, symbol,
         queryOutputSize, getOutputSize(optionalOutputSize))

DigitalCurrencyParams(digital, physical) ==
    Map3(queryEndpoint, valueDigitcalCurrencyEndpoint,
         querySymbol, digital,
         queryMarket, physical)

SymbolSearchParams(keywords) ==
    Map3(queryEndpoint, valueSymbolSearchEndpoint,
         queryDataType, valueJson,
         queryKeywords, keywords)

StockQuoteParams(symbol) ==
    Map2(queryEndpoint, GlobalQuote, querySymbol, symbol)

(***************************************************************************)
(* Bounds and the sets the inputs are drawn from.                          *)
(***************************************************************************)
Callers == { "c1", "c2" }

\* Addresses of the url.URL values the callers allocate.
Addrs == 1..Cardinality(Callers)

ApiKeys == { << "K", "1" >>, << "k", "+", "2" >> }

Hosts == { << "l", "o", "c", "a", "l", "h", "o", "s", "t" >> }

Symbols == { << "I", "B", "M" >>, << "A", " ", "B" >> }

Digitals == { << "B", "T", "C" >> }

Markets == { << "U", "S", "D" >> }

OneTimeSeries == { TimeSeriesDaily }

TimeIntervals == { TimeIntervalOneMinute }

\* Number of optional output sizes that follow the first one.
MaxTail == 1

SeqsUpTo(S, n) == UNION { [ 1..k -> S ] : k \in 0..n }

\* No size, and a value out of range followed by Full.
SomeSizeLists == { <<>>, << MaxOutputSize, Full >> }

\* Number of parameters of a map handed to buildRequestPath directly.
MaxParams == 3

\* The keys of such a map: the three base keys, and a key with bytes to
\* escape that sorts before them.
BuildKeys == { queryApiKey, queryDataType, queryOutputSize,
               << "Z", "&", "=" >> }

BuildValues == { <<>>, << "a", " ", "&", "=", "%", "+" >> }

ParamMaps ==
    UNION { [ K -> BuildValues ] :
              K \in { S \in SUBSET BuildKeys : Cardinality(S) <= MaxParams } }

\* The two calls of buildRequestPath that are compared.
Builds == { 1, 2 }

\* Every uint8 as the first size, then a short tail.
AllSizeLists ==
    { <<>> } \cup { << first >> \o tail :
                      first \in OutputSizes,
                      tail \in SeqsUpTo({ Compact, Full }, MaxTail) }

TransportErrors == { "timeout", "stopped after 10 redirects" }

\* What the body of a response holds: text that decodes, text that is not
\* of the format at all, or well-formed text with a member of the wrong
\* type after members that decode.
BodyContents(op) ==
    IF op = "SymbolSearch" THEN { "valid", "syntax", "mismatch" }
    ELSE { "valid", "mismatch" }

(***************************************************************************)
(* State.                                                                  *)
(*   client  the Client: its apiKey and its connection (an avConnection    *)
(*           with its host)                                                *)
(*   heap    the url.URL values allocated and not yet garbage              *)
(*   calls   for every caller, the call of a Client operation it is in     *)
(*   params, builds   a parameter map and the endpoints built from it      *)
(***************************************************************************)
VARIABLES client, heap, calls, params, builds

vars == << client, heap, calls, params, builds >>

NoArgs ==
    [ timeInterval |-> Nil, timeSeries |-> Nil, symbol |-> <<>>,
      market |-> <<>>, keywords |-> <<>>, optionalOutputSize |-> <<>> ]

NoResponse ==
    [ present |-> FALSE, content |-> Nil, readFails |-> FALSE, closed |-> 0 ]

NoReturn == [ value |-> Nil, err |-> Nil ]

IdleCall ==
    [ pc |-> "idle", op |-> Nil, args |-> NoArgs,
      endpoint |-> 0, target |-> <<>>, response |-> NoResponse,
      err |-> Nil, ret |-> NoReturn, log |-> <<>> ]

\* NewClient and NewClientConnection with NewConnection or
\* NewConnectionHost.
NewClientConnection(apiKey, host) ==
    [ apiKey |-> apiKey, conn |-> [ host |-> host ] ]

\* NewClient(k), and NewClientConnection with NewConnectionHost.
Clients ==
    { NewClientConnection(<< "k", "+", "2" >>, HostDefault) }
    \cup { NewClientConnection(<< "K", "1" >>, h) : h \in Hosts }

Init ==
    /\ client \in Clients
    /\ heap = [ a \in {} |-> URL(<<>>, <<>>) ]
    /\ calls = [ p \in Callers |-> IdleCall ]
    /\ params = << >>
    /\ builds = << >>

\* The parameter map of a call.
ParamsOf(op, args) ==
    CASE op = "StockTimeSeriesIntraday" ->
           StockTimeSeriesIntradayParams(args.timeInterval, args.symbol)
      [] op = "StockTimeSeries" ->
           StockTimeSeriesParams(args.timeSeries, args.symbol,
                                 args.optionalOutputSize)
      [] op = "DigitalCurrency" ->
           DigitalCurrencyParams(args.symbol, args.market)
      [] op = "SymbolSearch" -> SymbolSearchParams(args.keywords)
      [] op = "StockQuote" -> StockQuoteParams(args.symbol)

\* One url.URL that every call reuses.
Alloc_shared(h) == 1

\* endpoint := &url.URL{}: an address nothing lives at.
Alloc(h) ==
    CHOOSE a \in Addrs : a \notin DOMAIN h
                         /\ \A b \in Addrs : b < a => b \in DOMAIN h

Store(h, a, u) == [ b \in DOMAIN h \cup {a} |-> IF b = a THEN u ELSE h[b] ]

\* The first statement of every operation: the endpoint is built.
Invoke(p, op, args) ==
    /\ calls[p].pc = "idle"
    /\ \E order \in RangeOrders(ParamsOf(op, args)) :
          LET a == Alloc(heap)
          IN  /\ heap' = Store(heap, a,
                    buildRequestPath(client.apiKey, ParamsOf(op, args), order))
              /\ calls' = [ calls EXCEPT ![p] =
                    [ IdleCall EXCEPT !.pc = "built", !.op = op,
                                      !.args = args, !.endpoint = a,
                                      !.log = << "Build" >> ] ]
    /\ UNCHANGED << client, params, builds >>

StockTimeSeriesIntraday(p) ==
    \E timeInterval \in TimeIntervals, symbol \in Symbols :
        Invoke(p, "StockTimeSeriesIntraday",
               [ NoArgs EXCEPT !.timeInterval = timeInterval,
                               !.symbol = symbol ])

StockTimeSeries(p, series, lists) ==
    \E timeSeries \in series, symbol \in Symbols,
       optionalOutputSize \in lists :
        Invoke(p, "StockTimeSeries",
               [ NoArgs EXCEPT !.timeSeries = timeSeries, !.symbol = symbol,
                               !.optionalOutputSize = optionalOutputSize ])

DigitalCurrency(p) ==
    \E digital \in Digitals, physical \in Markets :
        Invoke(p, "DigitalCurrency",
               [ NoArgs EXCEPT !.symbol = digital, !.market = physical ])

SymbolSearch(p) ==
    \E keywords \in Symbols :
        Invoke(p, "SymbolSearch", [ NoArgs EXCEPT !.keywords = keywords ])

StockQuote(p) ==
    \E symbol \in Symbols :
        Invoke(p, "StockQuote", [ NoArgs EXCEPT !.symbol = symbol ])

(***************************************************************************)
(* avConnection.Request: the scheme and the host are written into the      *)
(* endpoint, and http.Client.Get answers with a response, with an error,   *)
(* or (a failed redirect check) with an error and a response whose body    *)
(* the http client has closed.                                             *)
(***************************************************************************)
GetOutcomes(op) ==
    { [ err |-> "timeout", response |-> NoResponse ] }
    \cup { [ err |-> "stopped after 10 redirects",
             response |-> [ NoResponse EXCEPT !.present = TRUE,
                                              !.closed = 1 ] ] }
    \cup { [ err |-> Nil,
             response |-> [ NoResponse EXCEPT !.present = TRUE,
                                              !.content = c ] ] :
           c \in BodyContents(op) }
    \cup (IF op = "SymbolSearch"
          THEN { [ err |-> Nil,
                   response |-> [ NoResponse EXCEPT !.present = TRUE,
                                                    !.content = "valid",
                                                    !.readFails = TRUE ] ] }
          ELSE {})

\* Request making the path absolute as well.
Request_setsPath(p) ==
    /\ calls[p].pc = "built"
    /\ LET a == calls[p].endpoint
           u == [ heap[a] EXCEPT !.Scheme = schemeHttps,
                                 !.Host = client.conn.host,
                                 !.Path = << "/" >> \o heap[a].Path ]
       IN  /\ heap' = [ heap EXCEPT ![a] = u ]
           /\ \E out \in GetOutcomes(calls[p].op) :
                calls' = [ calls EXCEPT ![p].pc = "responded",
                                        ![p].target = URLString(u),
                                        ![p].err = out.err,
                                        ![p].response = out.response,
                                        ![p].log = @ \o << "Request" >> ]
    /\ UNCHANGED << client, params, builds >>

Request(p) ==
    /\ calls[p].pc = "built"
    /\ LET a == calls[p].endpoint
           u == [ heap[a] EXCEPT !.Scheme = schemeHttps,
                                 !.Host = client.conn.host ]
       IN  /\ heap' = [ heap EXCEPT ![a] = u ]
           /\ \E out \in GetOutcomes(calls[p].op) :
                calls' = [ calls EXCEPT ![p].pc = "responded",
                                        ![p].target = URLString(u),
                                        ![p].err = out.err,
                                        ![p].response = out.response,
                                        ![p].log = @ \o << "Request" >> ]
    /\ UNCHANGED << client, params, builds >>

(***************************************************************************)
(* The decoders.  parseTimeSeriesData, parseDigitalCurrencySeriesData and  *)
(* parseQuoteData read the stream they are given and return all the        *)
(* records or an error, never a part of them; they do not close it.        *)
(***************************************************************************)
parseTabular(response) ==
    IF response.content = "valid" /\ ~ response.readFails
    THEN [ value |-> "complete", err |-> Nil ]
    ELSE [ value |-> Nil, err |-> "DecodeError" ]

parseTimeSeriesData(response) == parseTabular(response)

parseDigitalCurrencySeriesData(response) == parseTabular(response)

parseQuoteData(response) == parseTabular(response)

\* ioutil.ReadAll
ReadAll(response) ==
    IF response.readFails
    THEN [ value |-> Nil, err |-> "ReadError" ]
    ELSE [ value |-> response.content, err |-> Nil ]

\* json.Unmarshal(body, &matches) with matches a nil pointer.  Text that
\* is not JSON is rejected before anything is stored; on a member of the
\* wrong type the member is skipped, the rest is decoded into a value the
\* pointer is set to, and the first such error is returned.
jsonUnmarshal(body) ==
    CASE body = "valid"    -> [ value |-> "complete", err |-> Nil ]
      [] body = "syntax"   -> [ value |-> Nil, err |-> "SyntaxError" ]
      [] body = "mismatch" -> [ value |-> "partial",
                                err |-> "UnmarshalTypeError" ]

\* The request made again after a transport error.
ReturnTransportError_retry(p) ==
    /\ calls[p].pc = "responded"
    /\ calls[p].err # Nil
    /\ calls' = [ calls EXCEPT ![p].pc = "built", ![p].err = Nil,
                               ![p].response = NoResponse ]
    /\ UNCHANGED << client, heap, params, builds >>

\* The close deferred before the error is looked at.
ReturnTransportError_deferFirst(p) ==
    /\ calls[p].pc = "responded"
    /\ calls[p].err # Nil
    /\ calls' = [ calls EXCEPT
         ![p].pc = "done",
         ![p].ret = [ value |-> Nil, err |-> calls[p].err ],
         ![p].response.closed =
             IF calls[p].response.present THEN @ + 1 ELSE @,
         ![p].log = IF calls[p].response.present
                    THEN @ \o << "Close", "Return" >>
                    ELSE @ \o << "Return" >> ]
    /\ UNCHANGED << client, heap, params, builds >>

\* if err != nil { return nil, err }
ReturnTransportError(p) ==
    /\ calls[p].pc = "responded"
    /\ calls[p].err # Nil
    /\ calls' = [ calls EXCEPT
         ![p].pc = "done",
         ![p].ret = [ value |-> Nil, err |-> calls[p].err ],
         ![p].log = @ \o << "Return" >> ]
    /\ UNCHANGED << client, heap, params, builds >>

\* defer response.Body.Close() and the call of the decoder in the return
\* statement of the four tabular operations.
Decode(p) ==
    /\ calls[p].pc = "responded"
    /\ calls[p].err = Nil
    /\ calls[p].op # "SymbolSearch"
    /\ LET r == calls[p].response
           d == CASE calls[p].op = "DigitalCurrency" ->
                       parseDigitalCurrencySeriesData(r)
                  [] calls[p].op = "StockQuote" -> parseQuoteData(r)
                  [] OTHER -> parseTimeSeriesData(r)
       IN  calls' = [ calls EXCEPT ![p].pc = "returning", ![p].ret = d,
                                   ![p].log = @ \o << "Decode" >> ]
    /\ UNCHANGED << client, heap, params, builds >>

\* SymbolSearch: defer response.Body.Close(), ioutil.ReadAll and the
\* return on its error.
ReadBody(p) ==
    /\ calls[p].pc = "responded"
    /\ calls[p].err = Nil
    /\ calls[p].op = "SymbolSearch"
    /\ LET b == ReadAll(calls[p].response)
       IN  calls' = [ calls EXCEPT
             ![p].pc = IF b.err # Nil THEN "returning" ELSE "read",
             ![p].ret = IF b.err # Nil THEN [ value |-> Nil, err |-> b.err ]
                        ELSE NoReturn,
             ![p].log = @ \o << "ReadAll" >> ]
    /\ UNCHANGED << client, heap, params, builds >>

\* The error of json.Unmarshal returned.
Unmarshal_returnsError(p) ==
    /\ calls[p].pc = "read"
    /\ LET m == jsonUnmarshal(ReadAll(calls[p].response).value)
       IN  calls' = [ calls EXCEPT
             ![p].pc = "returning",
             ![p].ret = IF m.err # Nil THEN [ value |-> Nil, err |-> m.err ]
                        ELSE [ value |-> m.value, err |-> Nil ],
             ![p].log = @ \o << "Unmarshal" >> ]
    /\ UNCHANGED << client, heap, params, builds >>

\* SymbolSearch: json.Unmarshal(body, &matches), its error dropped, and
\* return matches, nil.
Unmarshal(p) ==
    /\ calls[p].pc = "read"
    /\ LET m == jsonUnmarshal(ReadAll(calls[p].response).value)
       IN  calls' = [ calls EXCEPT
             ![p].pc = "returning",
             ![p].ret = [ value |-> m.value, err |-> Nil ],
             ![p].log = @ \o << "Unmarshal" >> ]
    /\ UNCHANGED << client, heap, params, builds >>

\* The body closed only when the operation returns no error.
DeferredClose_onSuccessOnly(p) ==
    /\ calls[p].pc = "returning"
    /\ calls' = [ calls EXCEPT
         ![p].pc = "done",
         ![p].response.closed = IF calls[p].ret.err = Nil THEN @ + 1 ELSE @,
         ![p].log = IF calls[p].ret.err = Nil
                    THEN @ \o << "Close", "Return" >>
                    ELSE @ \o << "Return" >> ]
    /\ UNCHANGED << client, heap, params, builds >>

\* The deferred response.Body.Close() runs as the operation returns.
DeferredClose(p) ==
    /\ calls[p].pc = "returning"
    /\ calls' = [ calls EXCEPT ![p].pc = "done",
                               ![p].response.closed = @ + 1,
                               ![p].log = @ \o << "Close", "Return" >> ]
    /\ UNCHANGED << client, heap, params, builds >>

\* The caller has the results; the endpoint is garbage.
Finish(p) ==
    /\ calls[p].pc = "done"
    /\ heap' = [ a \in DOMAIN heap \ { calls[p].endpoint } |-> heap[a] ]
    /\ calls' = [ calls EXCEPT ![p] = IdleCall ]
    /\ UNCHANGED << client, params, builds >>

Step(p, series, lists) ==
    \/ StockTimeSeriesIntraday(p)
    \/ StockTimeSeries(p, series, lists)
    \/ DigitalCurrency(p)
    \/ SymbolSearch(p)
    \/ StockQuote(p)
    \/ Request(p)
    \/ ReturnTransportError(p)
    \/ Decode(p)
    \/ ReadBody(p)
    \/ Unmarshal(p)
    \/ DeferredClose(p)
    \/ Finish(p)

\* Callers call the operations of one Client concurrently.
Next == \E p \in Callers : Step(p, OneTimeSeries, SomeSizeLists)

Spec == Init /\ [][Next]_vars

(***************************************************************************)
(* One caller of StockTimeSeries, with every OutputSize as the first       *)
(* optional size.                                                          *)
(***************************************************************************)
NextSize ==
    \/ StockTimeSeries("c1", { TimeSeriesWeekly }, AllSizeLists)
    \/ Request("c1")
    \/ ReturnTransportError("c1")
    \/ Decode("c1")
    \/ DeferredClose("c1")
    \/ Finish("c1")

SpecSize == Init /\ [][NextSize]_vars

(***************************************************************************)
(* buildRequestPath alone: a Client, a parameter map, and two calls that   *)
(* each visit the keys of the map in an order of their own.                *)
(***************************************************************************)
NotBuilt == [ done |-> FALSE, order |-> <<>>, endpoint |-> URL(<<>>, <<>>) ]

InitBuild ==
    /\ client \in { NewClientConnection(k, HostDefault) : k \in ApiKeys }
    /\ heap = [ a \in {} |-> URL(<<>>, <<>>) ]
    /\ calls = [ p \in Callers |-> IdleCall ]
    /\ params \in ParamMaps
    /\ builds = [ i \in Builds |-> NotBuilt ]

Build(i) ==
    /\ ~ builds[i].done
    /\ \E order \in RangeOrders(params) :
          builds' = [ builds EXCEPT ![i] =
              [ done |-> TRUE, order |-> order,
                endpoint |-> buildRequestPath(client.apiKey, params, order) ] ]
    /\ UNCHANGED << client, heap, calls, params >>

NextBuild == \E i \in Builds : Build(i)

SpecBuild == InitBuild /\ [][NextBuild]_vars


(***************************************************************************)
(* Properties.                                                             *)
(***************************************************************************)
BaseKeys == { queryApiKey, queryDataType, queryOutputSize }

CountOf(log, e) == Cardinality({ i \in DOMAIN log : log[i] = e })

DecodeEvents == { "Decode", "ReadAll", "Unmarshal" }

\* The request was made: the endpoint has been handed to the transport.
Handed(p) == calls[p].pc \in { "responded", "read", "returning", "done" }

AnyOrder(m) == CHOOSE o \in RangeOrders(m) : TRUE

\* The keys of an encoded query, unescaped, in the order they appear in.
RECURSIVE KeysOf(_)
KeysOf(query) ==
    IF query = <<>> THEN <<>>
    ELSE LET amp  == FirstIndex(query, "&")
             pair == IF amp = 0 THEN query ELSE SubSeq(query, 1, amp - 1)
             rest == IF amp = 0 THEN <<>>
                     ELSE SubSeq(query, amp + 1, Len(query))
             eq   == FirstIndex(pair, "=")
             k    == IF eq = 0 THEN pair ELSE SubSeq(pair, 1, eq - 1)
         IN  << QueryUnescape(k) >> \o KeysOf(rest)

\* C1: the query of an endpoint built from a parameter map holds apikey,
\* datatype, outputsize and every key of the map; a key of the map has the
\* map's value, also when it is one of the three, and each of the three
\* that the map lacks has its default: the Client's key, csv, compact.
C1_BuiltQueryHasBaseAndParams ==
    \A i \in Builds :
        builds[i].done =>
            LET q == URLQuery(builds[i].endpoint)
            IN  /\ BaseKeys \cup DOMAIN params \subseteq DOMAIN q
                /\ \A k \in DOMAIN params : q[k] = << params[k] >>
                /\ queryApiKey \notin DOMAIN params
                      => q[queryApiKey] = << client.apiKey >>
                /\ queryDataType \notin DOMAIN params
                      => q[queryDataType] = << valueCsv >>
                /\ queryOutputSize \notin DOMAIN params
                      => q[queryOutputSize] = << valueCompact >>

\* An endpoint built from a map that overrides apikey and outputsize with
\* values other than the defaults, and lacks datatype.
C1_Witness ==
    \E i \in Builds :
        /\ builds[i].done
        /\ { queryApiKey, queryOutputSize } \subseteq DOMAIN params
        /\ queryDataType \notin DOMAIN params
        /\ params[queryApiKey] # client.apiKey
        /\ params[queryOutputSize] # valueCompact

\* C2: when Request returns an error, the operation returns a nil result
\* and that very error, no decoder runs, no body is read, and the
\* operation closes no response stream.
C2_TransportErrorReturnedUntouched ==
    \A p \in Callers :
        calls[p].err # Nil =>
            /\ \A i \in DOMAIN calls[p].log :
                  calls[p].log[i] \notin DecodeEvents \cup { "Close" }
            /\ calls[p].response.closed
                  = (IF calls[p].response.present THEN 1 ELSE 0)
            /\ calls[p].pc \in { "responded", "done" }
            /\ calls[p].pc = "done"
                  => calls[p].ret = [ value |-> Nil, err |-> calls[p].err ]

\* An operation has returned on an error that came with a response.
C2_Witness ==
    \E p \in Callers :
        /\ calls[p].pc = "done"
        /\ calls[p].err = "stopped after 10 redirects"
        /\ calls[p].response.present

\* C3: when the transport returns a response and no error, the body is
\* closed exactly once by the time the operation returns, whether the
\* decoding succeeded, failed, or the body could not be read, and it is
\* not closed before the decoding or reading is over.
C3_BodyClosedOnceAfterDecoding ==
    \A p \in Callers :
        (calls[p].err = Nil /\ calls[p].response.present) =>
            LET log == calls[p].log
            IN  /\ calls[p].response.closed = CountOf(log, "Close")
                /\ calls[p].pc = "done" => calls[p].response.closed = 1
                /\ calls[p].pc # "done" => calls[p].response.closed = 0
                /\ \A i \in DOMAIN log :
                      log[i] = "Close" =>
                          /\ \E j \in 1..(i - 1) : log[j] \in DecodeEvents
                          /\ \A j \in (i + 1)..Len(log) :
                                log[j] \notin DecodeEvents

\* SymbolSearch has returned the error of a body that could not be read.
C3_Witness ==
    \E p \in Callers :
        /\ calls[p].pc = "done"
        /\ calls[p].op = "SymbolSearch"
        /\ calls[p].ret.err = "ReadError"
        /\ calls[p].response.closed = 1

\* C4: a call of an operation makes exactly one request, also after a
\* transport error or a decoding error, and makes it before any decoding.
C4_ExactlyOneRequest ==
    \A p \in Callers :
        LET log == calls[p].log
        IN  /\ CountOf(log, "Request") = (IF Handed(p) THEN 1 ELSE 0)
            /\ \A i \in DOMAIN log :
                  log[i] \in DecodeEvents
                      => \E j \in 1..(i - 1) : log[j] = "Request"

\* One call has returned a transport error and another a decoding error.
C4_Witness ==
    \E p, q \in Callers :
        /\ calls[p].pc = "done" /\ calls[p].err # Nil
        /\ calls[q].pc = "done" /\ calls[q].ret.err = "DecodeError"

\* The outputsize of the endpoint of a call, as the transport reads it.
HandedOutputSize(p) ==
    ValuesGet(URLQuery(heap[calls[p].endpoint]), queryOutputSize)

\* C5: the endpoint StockTimeSeries hands to the transport has outputsize
\* compact when no size is given, full when Full is given, and compact
\* when a size other than Compact and Full (2..255) is given.
C5_OutputSizeSelection ==
    \A p \in Callers :
        (calls[p].op = "StockTimeSeries" /\ Handed(p)) =>
            LET sizes == calls[p].args.optionalOutputSize
            IN  /\ sizes = <<>> => HandedOutputSize(p) = valueCompact
                /\ (sizes # <<>> /\ sizes[1] = Full)
                      => HandedOutputSize(p) = valueFull
                /\ (sizes # <<>> /\ sizes[1] \in 2..MaxOutputSize)
                      => HandedOutputSize(p) = valueCompact

\* StockTimeSeries was called with the largest OutputSize and has made its
\* request.
C5_Witness ==
    \E p \in Callers :
        /\ calls[p].op = "StockTimeSeries"
        /\ Handed(p)
        /\ calls[p].args.optionalOutputSize # <<>>
        /\ calls[p].args.optionalOutputSize[1] = MaxOutputSize

\* C6: with a non-empty list of optional sizes, the endpoint StockTimeSeries
\* builds is the one it builds from the first size alone, whatever sizes
\* follow it and however many.
C6_FirstSizeWins ==
    \A p \in Callers :
        (/\ calls[p].op = "StockTimeSeries"
         /\ calls[p].pc = "built"
         /\ calls[p].args.optionalOutputSize # <<>>) =>
            LET a     == calls[p].args
                alone == StockTimeSeriesParams(a.timeSeries, a.symbol,
                             << a.optionalOutputSize[1] >>)
            IN  heap[calls[p].endpoint]
                  = buildRequestPath(client.apiKey, alone, AnyOrder(alone))

\* StockTimeSeries has built an endpoint from a first size and a different
\* second one.
C6_Witness ==
    \E p \in Callers :
        /\ calls[p].op = "StockTimeSeries"
        /\ calls[p].pc = "built"
        /\ Len(calls[p].args.optionalOutputSize) > 1
        /\ OutputSizeString(calls[p].args.optionalOutputSize[1])
             # OutputSizeString(calls[p].args.optionalOutputSize[2])

\* SymbolSearch has returned after its body was read in full.
SearchReturnedAfterRead(p) ==
    /\ calls[p].op = "SymbolSearch"
    /\ calls[p].pc = "done"
    /\ calls[p].err = Nil
    /\ ~ calls[p].response.readFails

\* The only errors SymbolSearch returns are those of the transport and of
\* reading the body.
SearchErrorsAreTransportOrRead ==
    \A p \in Callers :
        (calls[p].op = "SymbolSearch" /\ calls[p].pc = "done") =>
            calls[p].ret.err \in { Nil, "ReadError" } \cup TransportErrors

C8_BuildIsDeterministic ==
    \A i, j \in Builds :
        (builds[i].done /\ builds[j].done) =>
            /\ builds[i].endpoint.RawQuery = builds[j].endpoint.RawQuery
            /\ LET keys == KeysOf(builds[i].endpoint.RawQuery)
               IN  \A m, n \in DOMAIN keys :
                      m < n => StrLess(keys[m], keys[n])

\* Two endpoints were built from one map whose keys were visited in
\* different orders.
C8_Witness ==
    /\ \A i \in Builds : builds[i].done
    /\ \E i, j \in Builds : builds[i].order # builds[j].order

\* What a call returns when it runs alone, given what the transport
\* answered it.
ReturnAlone(c) ==
    IF c.err # Nil THEN [ value |-> Nil, err |-> c.err ]
    ELSE IF c.op = "SymbolSearch"
         THEN IF c.response.readFails
              THEN [ value |-> Nil, err |-> "ReadError" ]
              ELSE [ value |-> jsonUnmarshal(c.response.content).value,
                     err |-> Nil ]
         ELSE parseTabular(c.response)

\* The endpoint of a call that runs alone: as built, then with the scheme
\* and host of the connection.
EndpointAlone(c) ==
    LET m == ParamsOf(c.op, c.args)
        u == buildRequestPath(client.apiKey, m, AnyOrder(m))
    IN  IF c.pc = "built" THEN u
        ELSE [ u EXCEPT !.Scheme = schemeHttps, !.Host = client.conn.host ]

CallsAsIfAlone ==
    \A p \in Callers :
        calls[p].endpoint # 0 =>
            /\ \A q \in Callers \ {p} : calls[q].endpoint # calls[p].endpoint
            /\ calls[p].endpoint \in DOMAIN heap
            /\ heap[calls[p].endpoint] = EndpointAlone(calls[p])
            /\ Handed(p) => calls[p].target = URLString(EndpointAlone(calls[p]))
            /\ calls[p].pc = "done" => calls[p].ret = ReturnAlone(calls[p])

\* C9: however the calls of concurrent callers interleave, the Client's
\* apiKey and connection never change, every call has an endpoint of its
\* own, and the endpoint, the URL requested and the results of a call are
\* those of the call running alone.
C9_ConcurrentCallsIndependent ==
    /\ [][client' = client]_vars
    /\ []CallsAsIfAlone

\* Two calls of different operations are in flight, one of them past its
\* request.
C9_Witness ==
    \E p, q \in Callers :
        /\ calls[p].pc = "responded"
        /\ calls[q].pc = "built"
        /\ calls[p].op # calls[q].op

\* A call gets an address that nothing lives at.
EndpointIsFresh(p) ==
    (calls[p].endpoint = 0 /\ calls'[p].endpoint # 0)
        => calls'[p].endpoint \notin DOMAIN heap

\* C10 as stated: an endpoint is fresh, and from the call of Request on,
\* that of avConnection included, none of its fields changes.
C10_EndpointImmutableOnceHanded ==
    [][\A p \in Callers :
          /\ EndpointIsFresh(p)
          /\ (calls[p].endpoint # 0 /\ calls'[p].endpoint = calls[p].endpoint)
                => heap'[calls[p].endpoint] = heap[calls[p].endpoint]]_vars

\* C10, amended: an endpoint is fresh; its path and query never change
\* once it is built; avConnection.Request sets its scheme to https and its
\* host to the connection's, and no step after that changes any field.
C10_OnlyTransportSetsSchemeAndHost ==
    [][\A p \in Callers :
          /\ EndpointIsFresh(p)
          /\ (calls[p].endpoint # 0 /\ calls'[p].endpoint = calls[p].endpoint)
                => LET old == heap[calls[p].endpoint]
                       new == heap'[calls[p].endpoint]
                   IN  /\ new.Path = old.Path
                       /\ new.RawQuery = old.RawQuery
                       /\ IF calls[p].pc = "built" /\ calls'[p].pc = "responded"
                          THEN /\ new.Scheme = schemeHttps
                               /\ new.Host = client.conn.host
                          ELSE new = old]_vars

\* A request was made: the endpoint has the scheme and the host of the
\* connection, which it was built without.
C10_Witness ==
    \E p \in Callers :
        /\ calls[p].pc = "responded"
        /\ heap[calls[p].endpoint].Scheme = schemeHttps
        /\ heap[calls[p].endpoint].Host = client.conn.host
        /\ client.conn.host # <<>>

====
